---- MODULE Spec2Model ----
(***************************************************************************)
(* A model of @casoon/fragment-renderer: the runtime's service locator     *)
(* (runtime.ts, registerService / getService) and its lazy component       *)
(* resolution (internal/resolve-component.ts, used by renderToString).     *)
(*                                                                         *)
(* Every async function is cut at its awaits: the part of the body up to   *)
(* the first await runs in the step that issues the call, and each         *)
(* continuation is a step of its own, so calls interleave exactly where    *)
(* the JavaScript event loop lets them.                                    *)
(***************************************************************************)
EXTENDS Integers, Sequences, FiniteSets, TLC

\* Bounds of the exploration.
MaxGets == 3
MaxServiceRegs == 1
MaxRenders == 3
MaxComponentRegs == 1
MaxInval == 1

\* Two independently constructed runtimes (createAstroRuntime called twice).
RT == {"rtA", "rtB"}
\* Service names and component ids handed to the operations.
Names == {"x"}
Ids == {"hero"}
\* The value a Map has for a key it does not hold.
Absent == "absent"
\* An argument that is not a function (typeof !== "function").
NotCallable == "notCallable"
\* An id argument that is not a string (typeof !== "string"), e.g. a number.
NotAString == "<42>"

\* The factories (resp. loaders) the owner of runtime r may register: each
\* runtime's owner has two distinct functions of each kind.
FactoriesOf(r) == IF r = "rtA" THEN {"fA1", "fA2"} ELSE {"fB1", "fB2"}
Factories == UNION {FactoriesOf(r) : r \in RT}
LoadersOf(r) == IF r = "rtA" THEN {"lA1", "lA2"} ELSE {"lB1", "lB2"}
Loaders == UNION {LoadersOf(r) : r \in RT}
\* The function the construction config of runtime r carries.
ConfigFactory(r) == IF r = "rtA" THEN "fA1" ELSE "fB1"
ConfigLoader(r) == IF r = "rtA" THEN "lA1" ELSE "lB1"

\* No object: what Map.get gives for a missing key.
NoObject == [by |-> Absent, inv |-> 0]

\* Component metadata: a category (Absent when the field is missing) and the
\* set of its tags (only membership in the tags array is ever read); a missing
\* meta or a missing tags array reads like an empty one (meta?.tags ?? []).
NoMeta == [category |-> Absent, tags |-> {}]

\* No synchronous call has returned yet.
NoCall == [op |-> "none", ret |-> "void"]

VARIABLES
  services,          \* this.services of each runtime: name -> factory
  serviceInstances,  \* this.serviceInstances of each runtime: name -> instance
  factoryCalls,      \* how often each factory has been invoked
  gcalls,            \* the getService calls issued so far, in order of issue
  regGen,            \* history: registerService calls accepted per runtime, name
  nextMark,          \* history: what happened since the last getService was issued
  thrown,            \* the error of the last synchronous registration call
  registry,          \* this.registry of each runtime, in insertion order
  componentCache,    \* the module-level componentCache: id -> component
  loaderCalls,       \* how often each loader has been invoked
  rcalls,            \* the renderToString calls issued so far, in order of issue
  compRegs,          \* history: registerComponent calls accepted so far
  cacheGen,          \* history: invalidations of each id so far
  regOrder,          \* history: per runtime, the ids registered and not
                     \* unregistered since, in the order they were registered
  sync,              \* the last synchronous call and what it returned
  heap,              \* the context objects there are: reference -> content
  baseContext        \* this.baseContext of each runtime: a reference

svars == <<services, serviceInstances, factoryCalls, gcalls, regGen, nextMark>>
rvars == <<registry, componentCache, loaderCalls, rcalls, compRegs, cacheGen,
          regOrder, sync>>
vars == <<services, serviceInstances, factoryCalls, gcalls, regGen, nextMark,
          thrown, registry, componentCache, loaderCalls, rcalls, compRegs,
          cacheGen, regOrder, sync, heap, baseContext>>
cvars == <<heap, baseContext>>

----------------------------------------------------------------------------
\* Contexts

\* A context is a function from the keys it has to their values; a key can be
\* there with the value undefined. A fragment is a context or, when not given,
\* undefined.
MaxFragments == 3
Undefined == "undefined"
CtxKeys == {"locale", "channel"}
CtxValues == {"a", "b", Undefined}
Contexts == UNION {[S -> CtxValues] : S \in SUBSET CtxKeys}
NoFragment == [given |-> FALSE, ctx |-> <<>>]
Fragments == {[given |-> TRUE, ctx |-> ctx] : ctx \in Contexts} \cup {NoFragment}

\* An Object.assign under which a key the target already has keeps its value.
AssignKeepFirst(result, ctx) ==
  [k \in DOMAIN result \cup DOMAIN ctx |->
     IF k \in DOMAIN result THEN result[k] ELSE ctx[k]]

\* Object.assign(result, ctx): every own key of ctx is copied onto result.
Assign(result, ctx) ==
  [k \in DOMAIN result \cup DOMAIN ctx |->
     IF k \in DOMAIN ctx THEN ctx[k] ELSE result[k]]

\* The loop of mergeContexts over the fragments that are left, from result.
RECURSIVE MergeInto(_, _)
MergeInto(result, contexts) ==
  IF contexts = <<>> THEN result
  ELSE MergeInto(IF Head(contexts).given
                   THEN Assign(result, Head(contexts).ctx)
                   ELSE result,
                 Tail(contexts))

\* A default context that sets no channel.
createDefaultContextNoChannel == [locale |-> Undefined]

\* createDefaultContext()
createDefaultContext == [locale |-> Undefined, channel |-> "web"]

\* A mergeContexts that starts from the default context instead of {}.
mergeContextsFromDefault(contexts) == MergeInto(createDefaultContext, contexts)

\* mergeContexts(...contexts)
mergeContexts(contexts) == MergeInto(<<>>, contexts)

\* The fragment that is the given context.
Given(ctx) == [given |-> TRUE, ctx |-> ctx]

\* A merge in which the base context goes last and so wins.
MergedContextBaseLast(base, override) == mergeContexts(<<override, Given(base)>>)

\* mergeContexts(this.baseContext, context): what a render hands to the engine.
MergedContext(base, override) == mergeContexts(<<Given(base), override>>)

\* What the base context object holds after mergeContexts(this.baseContext,
\* context) under a merge that assigns onto its first fragment.
AfterMergeAssigned(base, override) == MergedContext(base, override)

\* What the base context object holds after mergeContexts(this.baseContext,
\* context): the merge assigns onto a new object, const result = {}.
AfterMerge(base, override) == base

\* The context objects of the exploration, by reference: the object rtA's
\* construction config carries as baseContext, the object createDefaultContext
\* made in rtB's constructor, an object the caller made, and the objects
\* getBaseContext returns.
MaxCopies == 1
CopyRefs == {"copy1", "copy2", "copy3"}
CallerRefs == {"cfg", "own"} \cup CopyRefs
ConfigBase == [locale |-> "a", channel |-> "a"]
OwnContext == [locale |-> "b"]

\* new AstroRuntimeImpl(config): this.baseContext = config.baseContext ??
\* createDefaultContext(); rtA is given a base context, rtB is not.
InitC ==
  /\ heap = [ref \in {"cfg", "dflt", "own"} |->
               CASE ref = "cfg" -> ConfigBase
                 [] ref = "dflt" -> createDefaultContext
                 [] OTHER -> OwnContext]
  /\ baseContext = [r \in RT |-> IF r = "rtA" THEN "cfg" ELSE "dflt"]

----------------------------------------------------------------------------
\* Service locator

\* The object returned by the inv-th invocation of factory f.
Instance(f, inv) == [by |-> f, inv |-> inv]

\* The getService calls that have settled (returned or thrown).
Settled(calls) == {i \in 1..Len(calls) : calls[i].pc \in {"done", "failed"}}

\* The registerService calls accepted so far, over all runtimes and names.
RegsDone(gen) ==
  LET RECURSIVE Sum(_)
      Sum(S) == IF S = {} THEN 0
                ELSE LET p == CHOOSE q \in S : TRUE
                     IN gen[p[1]][p[2]] + Sum(S \ {p})
  IN Sum(RT \X Names)

\* this.services.set(service.name, service) for each service of the config.
ConfigServices(r, given) ==
  [n \in Names |-> IF n \in given THEN ConfigFactory(r) ELSE Absent]

\* A set on one instance Map that all runtimes share (what a module-level
\* Map, like componentCache, would do).
InstSetShared(si, r, name, inst) == [q \in RT |-> [si[q] EXCEPT ![name] = inst]]

\* this.serviceInstances.set(name, instance) on runtime r.
InstSet(si, r, name, inst) == [si EXCEPT ![r][name] = inst]

\* this.serviceInstances.delete(name) on runtime r.
InstDelete(si, r, name) == [si EXCEPT ![r][name] = NoObject]

\* A registerService that evicts the memoized instance before it looks at its
\* arguments.
RegisterServiceEvictFirst(r, name, factory) ==
  /\ UNCHANGED <<factoryCalls, gcalls>>
  /\ UNCHANGED <<rvars, cvars>>
  /\ IF name = "" \/ factory = NotCallable
       THEN /\ thrown' = "InvalidArgument"
            /\ serviceInstances' =
                 [q \in RT |-> [n \in Names |->
                    IF q = r THEN NoObject ELSE serviceInstances[q][n]]]
            /\ UNCHANGED <<services, regGen, nextMark>>
       ELSE /\ RegsDone(regGen) < MaxServiceRegs
            /\ thrown' = ""
            /\ services' = [services EXCEPT ![r][name] = factory]
            /\ serviceInstances' = InstDelete(serviceInstances, r, name)
            /\ regGen' = [regGen EXCEPT ![r][name] = @ + 1]
            /\ nextMark' = [nextMark EXCEPT ![r][name] =
                 IF serviceInstances[r][name] # NoObject
                   THEN @ \cup {"discard"} ELSE @]

\* registerService(name, factory) on runtime r.
RegisterService(r, name, factory) ==
  /\ UNCHANGED <<factoryCalls, gcalls>>
  /\ UNCHANGED <<rvars, cvars>>
  /\ IF name = "" \/ factory = NotCallable
       THEN /\ thrown' = "InvalidArgument"
            /\ UNCHANGED <<services, serviceInstances, regGen, nextMark>>
       ELSE /\ RegsDone(regGen) < MaxServiceRegs
            /\ thrown' = ""
            /\ services' = [services EXCEPT ![r][name] = factory]
            /\ serviceInstances' = InstDelete(serviceInstances, r, name)
            /\ regGen' = [regGen EXCEPT ![r][name] = @ + 1]
            /\ nextMark' = [nextMark EXCEPT ![r][name] =
                 IF serviceInstances[r][name] # NoObject
                   THEN @ \cup {"discard"} ELSE @]

\* A getService that returns undefined for a name without a definition.
GetServiceUndefined(r, name) ==
  /\ Len(gcalls) < MaxGets
  /\ UNCHANGED <<services, serviceInstances, regGen, thrown>>
  /\ UNCHANGED <<rvars, cvars>>
  /\ nextMark' = [nextMark EXCEPT ![r][name] = {}]
  /\ LET call == [rt |-> r, name |-> name, pc |-> "done", factory |-> Absent,
                  inv |-> 0, result |-> NoObject, err |-> "",
                  before |-> Settled(gcalls), gen |-> regGen[r][name],
                  mark |-> nextMark[r][name]]
         def == services[r][name]
     IN IF serviceInstances[r][name] # NoObject
          THEN /\ gcalls' = Append(gcalls,
                     [call EXCEPT !.result = serviceInstances[r][name]])
               /\ UNCHANGED factoryCalls
          ELSE IF def = Absent
            THEN /\ gcalls' = Append(gcalls,
                       call)
                 /\ UNCHANGED factoryCalls
            ELSE /\ factoryCalls' = [factoryCalls EXCEPT ![def] = @ + 1]
                 /\ gcalls' = Append(gcalls,
                       [call EXCEPT !.pc = "building", !.factory = def,
                                    !.inv = factoryCalls[def] + 1])

\* getService(name) on runtime r, up to its first await (or its return).
GetService(r, name) ==
  /\ Len(gcalls) < MaxGets
  /\ UNCHANGED <<services, serviceInstances, regGen, thrown>>
  /\ UNCHANGED <<rvars, cvars>>
  /\ nextMark' = [nextMark EXCEPT ![r][name] = {}]
  /\ LET call == [rt |-> r, name |-> name, pc |-> "done", factory |-> Absent,
                  inv |-> 0, result |-> NoObject, err |-> "",
                  before |-> Settled(gcalls), gen |-> regGen[r][name],
                  mark |-> nextMark[r][name]]
         def == services[r][name]
     IN IF serviceInstances[r][name] # NoObject
          THEN /\ gcalls' = Append(gcalls,
                     [call EXCEPT !.result = serviceInstances[r][name]])
               /\ UNCHANGED factoryCalls
          ELSE IF def = Absent
            THEN /\ gcalls' = Append(gcalls,
                       [call EXCEPT !.pc = "failed", !.err = "NotFound"])
                 /\ UNCHANGED factoryCalls
            ELSE /\ factoryCalls' = [factoryCalls EXCEPT ![def] = @ + 1]
                 /\ gcalls' = Append(gcalls,
                       [call EXCEPT !.pc = "building", !.factory = def,
                                    !.inv = factoryCalls[def] + 1])

\* The factory's promise settles and getService call c resumes after its await.
FactoryReturn(c, ok) ==
  /\ c \in 1..Len(gcalls)
  /\ gcalls[c].pc = "building"
  /\ UNCHANGED <<services, factoryCalls, regGen, thrown>>
  /\ UNCHANGED <<rvars, cvars>>
  /\ LET call == gcalls[c]
         instance == Instance(call.factory, call.inv)
     IN IF ok
          THEN /\ serviceInstances' =
                    InstSet(serviceInstances, call.rt, call.name, instance)
               /\ gcalls' = [gcalls EXCEPT ![c].pc = "done",
                                           ![c].result = instance]
               /\ UNCHANGED nextMark
          ELSE /\ gcalls' = [gcalls EXCEPT ![c].pc = "failed",
                                           ![c].err = "ServiceBuildError"]
               /\ nextMark' = [nextMark EXCEPT ![call.rt][call.name] =
                                 @ \cup {"fail"}]
               /\ UNCHANGED serviceInstances

\* hasService(name) on runtime r: this.services.has(name).
HasService(r, name) == services[r][name] # Absent

\* new AstroRuntimeImpl(config): rtA is constructed with config.services,
\* rtB with no config at all.
InitS ==
  /\ services = [r \in RT |-> ConfigServices(r, IF r = "rtA" THEN Names ELSE {})]
  /\ serviceInstances = [r \in RT |-> [n \in Names |-> NoObject]]
  /\ factoryCalls = [f \in Factories |-> 0]
  /\ gcalls = <<>>
  /\ regGen = [r \in RT |-> [n \in Names |-> 0]]
  /\ nextMark = [r \in RT |-> [n \in Names |-> {}]]
  /\ thrown = ""

\* The resolution side of a runtime nobody renders with.
IdleR ==
  /\ registry = [r \in RT |-> <<>>]
  /\ componentCache = [i \in Ids |-> NoObject]
  /\ loaderCalls = [l \in Loaders |-> 0]
  /\ rcalls = <<>>
  /\ compRegs = 0
  /\ cacheGen = [i \in Ids |-> 0]
  /\ regOrder = [r \in RT |-> <<>>]
  /\ sync = NoCall

InitService == InitS /\ IdleR /\ InitC

NextService ==
  \/ \E r \in RT, name \in Names \cup {""} :
       \E factory \in FactoriesOf(r) \cup {NotCallable} :
         RegisterService(r, name, factory)
  \/ \E r \in RT, name \in Names : GetService(r, name)
  \/ \E c \in 1..MaxGets, ok \in BOOLEAN : FactoryReturn(c, ok)

SpecService == InitService /\ [][NextService]_vars

----------------------------------------------------------------------------
\* Registry and component resolution

\* Map.has, Map.get and Map.set on a Map of registry entries, kept as the
\* sequence of its entries in insertion order.
RegHas(reg, id) == \E i \in 1..Len(reg) : reg[i].id = id
RegGet(reg, id) == reg[CHOOSE i \in 1..Len(reg) : reg[i].id = id]
\* A Map.set that moves the key it sets again to the end, as a delete followed
\* by a set does.
RegSetMoveToEnd(reg, entry) ==
  Append(SelectSeq(reg, LAMBDA e : e.id # entry.id), entry)

\* A Map.set that merges into the entry it replaces: a metadata field the new
\* entry lacks is taken over from the old one.
RegSetMerge(reg, entry) ==
  IF RegHas(reg, entry.id)
    THEN [i \in 1..Len(reg) |->
           IF reg[i].id = entry.id
             THEN [entry EXCEPT
                     !.meta = [category |-> IF entry.meta.category = Absent
                                              THEN reg[i].meta.category
                                              ELSE entry.meta.category,
                               tags |-> entry.meta.tags \cup reg[i].meta.tags]]
             ELSE reg[i]]
    ELSE Append(reg, entry)

RegSet(reg, entry) ==
  IF RegHas(reg, entry.id)
    THEN [i \in 1..Len(reg) |-> IF reg[i].id = entry.id THEN entry ELSE reg[i]]
    ELSE Append(reg, entry)

\* The component the inv-th invocation of loader l resolves to: a loader hands
\* out either one shared object (inv 0, as a dynamic import does) or a new
\* object per invocation.
Handle(l, inv) == [by |-> l, inv |-> inv]

\* The ways a loader's promise can settle.
LoaderOutcomes == {"fresh", "shared", "nodefault", "reject"}

\* The renderToString calls whose resolveComponent has settled.
ResolveSettled(calls) ==
  {i \in 1..Len(calls) : calls[i].pc # "loading"}

\* A Map.delete that takes nothing out.
RegDeleteKeep(reg, id) == reg

\* Map.delete(id): the entry with that id is taken out.
RegDelete(reg, id) == SelectSeq(reg, LAMBDA e : e.id # id)

\* The ids of the entries of a Map, in its iteration order.
RegIds(reg) == [i \in 1..Len(reg) |-> reg[i].id]

\* The order ids were registered in: a new id goes last, an id that is being
\* registered again keeps its place, an unregistered id leaves the order.
OrderAdd(order, id) ==
  IF \E i \in 1..Len(order) : order[i] = id THEN order ELSE Append(order, id)
OrderDrop(order, id) == SelectSeq(order, LAMBDA x : x # id)

\* An id check that only rejects the empty string.
BadIdEmptyOnly(id) == id = ""

\* The two checks of registerComponent and of each entry of registerComponents:
\* !id || typeof id !== "string", and typeof loader !== "function".
BadId(id) == id = "" \/ id = NotAString
BadLoader(loader) == loader = NotCallable

\* A registerComponent that evicts the handle cached for the id it registers.
RegisterComponentEvicting(r, id, loader, meta) ==
  /\ UNCHANGED <<loaderCalls, rcalls, cacheGen>>
  /\ UNCHANGED <<svars, cvars>>
  /\ IF BadId(id) \/ BadLoader(loader)
       THEN /\ thrown' = "InvalidArgument"
            /\ sync' = [op |-> "registerComponent", ret |-> "throw"]
            /\ UNCHANGED <<registry, regOrder, componentCache>>
       ELSE /\ thrown' = ""
            /\ sync' = [op |-> "registerComponent", ret |-> "void"]
            /\ registry' = [registry EXCEPT
                 ![r] = RegSet(@, [id |-> id, loader |-> loader,
                                   meta |-> meta])]
            /\ regOrder' = [regOrder EXCEPT ![r] = OrderAdd(@, id)]
            /\ componentCache' = [componentCache EXCEPT ![id] = NoObject]

\* registerComponent(id, loader, meta) on runtime r.
RegisterComponent(r, id, loader, meta) ==
  /\ UNCHANGED <<componentCache, loaderCalls, rcalls, cacheGen>>
  /\ UNCHANGED <<svars, cvars>>
  /\ IF BadId(id) \/ BadLoader(loader)
       THEN /\ thrown' = "InvalidArgument"
            /\ sync' = [op |-> "registerComponent", ret |-> "throw"]
            /\ UNCHANGED <<registry, regOrder>>
       ELSE /\ thrown' = ""
            /\ sync' = [op |-> "registerComponent", ret |-> "void"]
            /\ registry' = [registry EXCEPT
                 ![r] = RegSet(@, [id |-> id, loader |-> loader,
                                   meta |-> meta])]
            /\ regOrder' = [regOrder EXCEPT ![r] = OrderAdd(@, id)]

\* componentCache.set(id, component)
CacheSet(cache, id, component) == [cache EXCEPT ![id] = component]

\* entry.styles: undefined for an entry that has no such property.
EntryStyles(entry) ==
  IF "styles" \in DOMAIN entry THEN entry.styles ELSE Undefined

\* The markup the engine returns is known by what the engine was given: the
\* component handle and the merged context.
Markup(call) == <<"markup", call.rendered, call.context>>

\* A renderToString that returns the engine's markup as it is.
HtmlPlain(call) == Markup(call)

\* What renderToString returns once the engine has returned: if (entry.styles)
\* html = `<style>${entry.styles}</style>\n${html}`.
Html(call) ==
  IF call.styles # Undefined /\ call.styles # ""
    THEN <<"<style>", call.styles, "</style>", "\n", Markup(call)>>
    ELSE Markup(call)

\* A renderToString that asks the resolution cache before the registry: an
\* unregistered id whose handle is still cached goes on to the engine.
RenderToStringCacheFirst(r, id, override) ==
  /\ Len(rcalls) < MaxRenders
  /\ UNCHANGED <<registry, componentCache, compRegs, cacheGen, thrown,
               regOrder, sync>>
  /\ UNCHANGED <<svars, cvars>>
  /\ LET call == [rt |-> r, id |-> id, pc |-> "failed", loader |-> Absent,
                  inv |-> 0, component |-> NoObject, rendered |-> NoObject,
                  err |-> "NotFound", before |-> ResolveSettled(rcalls),
                  igen |-> cacheGen[id], rgen |-> cacheGen[id],
                  op |-> "renderToString", override |-> override,
                  context |-> <<>>, styles |-> Undefined, ret |-> <<>>,
                  base |-> baseContext[r]]
         cached == componentCache[id]
     IN IF cached # NoObject
          THEN /\ rcalls' = Append(rcalls,
                     [call EXCEPT !.pc = "resolved", !.err = "",
                                  !.component = cached])
               /\ UNCHANGED loaderCalls
          ELSE IF ~RegHas(registry[r], id)
            THEN /\ rcalls' = Append(rcalls, call)
                 /\ UNCHANGED loaderCalls
            ELSE LET entry == RegGet(registry[r], id)
                 IN /\ loaderCalls' =
                         [loaderCalls EXCEPT ![entry.loader] = @ + 1]
                    /\ rcalls' = Append(rcalls,
                          [call EXCEPT !.pc = "loading", !.err = "",
                                       !.loader = entry.loader,
                                       !.inv = loaderCalls[entry.loader] + 1])

\* The body of renderToString({componentId: id, context: override}) on
\* runtime r: the registry lookup and resolveComponent up to its first await
\* (the loader's promise), or, on a cache hit, up to the await of the resolved
\* component.
RenderToStringCall(r, id, override) ==
  /\ Len(rcalls) < MaxRenders
  /\ UNCHANGED <<registry, componentCache, compRegs, cacheGen, thrown,
               regOrder>>
  /\ UNCHANGED <<svars, cvars>>
  /\ LET call == [rt |-> r, id |-> id, pc |-> "failed", loader |-> Absent,
                  inv |-> 0, component |-> NoObject, rendered |-> NoObject,
                  err |-> "NotFound", before |-> ResolveSettled(rcalls),
                  igen |-> cacheGen[id], rgen |-> cacheGen[id],
                  op |-> "renderToString", override |-> override,
                  context |-> <<>>, styles |-> Undefined, ret |-> <<>>,
                  base |-> baseContext[r]]
         cached == componentCache[id]
     IN IF ~RegHas(registry[r], id)
          THEN /\ rcalls' = Append(rcalls, call)
               /\ UNCHANGED loaderCalls
          ELSE LET entry == RegGet(registry[r], id)
               IN IF cached # NoObject
                    THEN /\ rcalls' = Append(rcalls,
                               [call EXCEPT !.pc = "resolved", !.err = "",
                                            !.loader = entry.loader,
                                            !.styles = EntryStyles(entry),
                                            !.component = cached])
                         /\ UNCHANGED loaderCalls
                    ELSE /\ loaderCalls' =
                              [loaderCalls EXCEPT ![entry.loader] = @ + 1]
                         /\ rcalls' = Append(rcalls,
                               [call EXCEPT !.pc = "loading", !.err = "",
                                            !.loader = entry.loader,
                                            !.styles = EntryStyles(entry),
                                            !.inv = loaderCalls[entry.loader] + 1])

\* renderToString({componentId: id, context: override}) on runtime r, called
\* by the application itself.
RenderToString(r, id, override) ==
  RenderToStringCall(r, id, override) /\ UNCHANGED sync

\* A resolveComponent that resumes without testing module.default: a loader
\* result with no default export is cached and returned like a handle.
LoaderReturnUnchecked(c, outcome) ==
  /\ c \in 1..Len(rcalls)
  /\ rcalls[c].pc = "loading"
  /\ UNCHANGED <<registry, loaderCalls, compRegs, cacheGen, thrown,
               regOrder, sync>>
  /\ UNCHANGED <<svars, cvars>>
  /\ LET call == rcalls[c]
         component == IF outcome = "fresh" THEN Handle(call.loader, call.inv)
                      ELSE Handle(call.loader, 0)
     IN CASE outcome = "reject" ->
               /\ rcalls' = [rcalls EXCEPT ![c].pc = "failed",
                                           ![c].err = "LoaderError"]
               /\ UNCHANGED componentCache
          [] outcome = "nodefault" ->
               /\ rcalls' = [rcalls EXCEPT ![c].pc = "resolved",
                                           ![c].rgen = cacheGen[call.id]]
               /\ UNCHANGED componentCache
          [] OTHER ->
               /\ componentCache' = CacheSet(componentCache, call.id, component)
               /\ rcalls' = [rcalls EXCEPT ![c].pc = "resolved",
                                           ![c].component = component,
                                           ![c].rgen = cacheGen[call.id]]

\* The loader's promise settles and resolveComponent of call c resumes.
LoaderReturn(c, outcome) ==
  /\ c \in 1..Len(rcalls)
  /\ rcalls[c].pc = "loading"
  /\ UNCHANGED <<registry, loaderCalls, compRegs, cacheGen, thrown,
               regOrder, sync>>
  /\ UNCHANGED <<svars, cvars>>
  /\ LET call == rcalls[c]
         component == IF outcome = "fresh" THEN Handle(call.loader, call.inv)
                      ELSE Handle(call.loader, 0)
     IN CASE outcome = "reject" ->
               /\ rcalls' = [rcalls EXCEPT ![c].pc = "failed",
                                           ![c].err = "LoaderError"]
               /\ UNCHANGED componentCache
          [] outcome = "nodefault" ->
               /\ rcalls' = [rcalls EXCEPT ![c].pc = "failed",
                                           ![c].err = "ResolutionError"]
               /\ UNCHANGED componentCache
          [] OTHER ->
               /\ componentCache' = CacheSet(componentCache, call.id, component)
               /\ rcalls' = [rcalls EXCEPT ![c].pc = "resolved",
                                           ![c].component = component,
                                           ![c].rgen = cacheGen[call.id]]

\* A renderToString that is not resumed once resolveComponent has returned.
EngineCallNever(c) ==
  /\ c \in 1..Len(rcalls)
  /\ rcalls[c].pc = "resumed"
  /\ UNCHANGED vars

\* renderToString call c resumes after await resolveComponent(entry) and hands
\* the component to the rendering engine (this.container.render).
EngineCall(c) ==
  /\ c \in 1..Len(rcalls)
  /\ rcalls[c].pc = "resolved"
  /\ UNCHANGED <<registry, componentCache, loaderCalls, compRegs, cacheGen,
               thrown, regOrder, sync>>
  /\ UNCHANGED <<svars, baseContext>>
  /\ LET base == baseContext[rcalls[c].rt]
     IN /\ rcalls' = [rcalls EXCEPT
                        ![c].pc = "rendering",
                        ![c].rendered = rcalls[c].component,
                        ![c].context =
                           MergedContext(heap[base], rcalls[c].override)]
        /\ heap' = [heap EXCEPT
                      ![base] = AfterMerge(@, rcalls[c].override)]

\* The engine's promise settles: call c returns the markup, renderToString
\* after its style block has been put in front, or throws.
EngineReturn(c, ok) ==
  /\ c \in 1..Len(rcalls)
  /\ rcalls[c].pc = "rendering"
  /\ UNCHANGED <<registry, componentCache, loaderCalls, compRegs, cacheGen,
               thrown, regOrder, sync>>
  /\ UNCHANGED <<svars, cvars>>
  /\ rcalls' = IF ok
                 THEN [rcalls EXCEPT
                         ![c].pc = "done",
                         ![c].ret = IF rcalls[c].op = "renderToString"
                                      THEN Html(rcalls[c])
                                      ELSE Markup(rcalls[c])]
               ELSE [rcalls EXCEPT ![c].pc = "failed", ![c].err = "RenderError"]

\* removeFromCache(id)
RemoveFromCache(id) ==
  /\ \A i \in Ids : cacheGen[i] < MaxInval
  /\ componentCache' = [componentCache EXCEPT ![id] = NoObject]
  /\ cacheGen' = [cacheGen EXCEPT ![id] = @ + 1]
  /\ UNCHANGED <<registry, loaderCalls, rcalls, compRegs, thrown, regOrder,
               sync>>
  /\ UNCHANGED <<svars, cvars>>

\* clearComponentCache()
ClearComponentCache ==
  /\ \A i \in Ids : cacheGen[i] < MaxInval
  /\ componentCache' = [i \in Ids |-> NoObject]
  /\ cacheGen' = [i \in Ids |-> cacheGen[i] + 1]
  /\ UNCHANGED <<registry, loaderCalls, rcalls, compRegs, thrown, regOrder,
               sync>>
  /\ UNCHANGED <<svars, cvars>>

\* this.registerComponents(config.components): the registry after construction.
ConfigComponents(r, given) ==
  IF given THEN <<[id |-> "hero", loader |-> ConfigLoader(r),
                   meta |-> NoMeta]>>
  ELSE <<>>

\* new AstroRuntimeImpl(config): rtA is constructed with config.components,
\* rtB with no config at all; the module-level cache starts empty.
InitR ==
  /\ registry = [r \in RT |-> ConfigComponents(r, r = "rtA")]
  /\ componentCache = [i \in Ids |-> NoObject]
  /\ loaderCalls = [l \in Loaders |-> 0]
  /\ rcalls = <<>>
  /\ compRegs = 0
  /\ cacheGen = [i \in Ids |-> 0]
  /\ regOrder = [r \in RT |-> RegIds(registry[r])]
  /\ sync = NoCall
  /\ thrown = ""

\* The service side of a runtime nobody asks for a service.
IdleS ==
  /\ services = [r \in RT |-> [n \in Names |-> Absent]]
  /\ serviceInstances = [r \in RT |-> [n \in Names |-> NoObject]]
  /\ factoryCalls = [f \in Factories |-> 0]
  /\ gcalls = <<>>
  /\ regGen = [r \in RT |-> [n \in Names |-> 0]]
  /\ nextMark = [r \in RT |-> [n \in Names |-> {}]]

InitResolve == InitR /\ IdleS /\ InitC

\* Registrations here carry well-formed arguments only: a malformed one throws
\* before it touches the registry.
NextResolve ==
  \/ \E r \in RT, id \in Ids :
       \E loader \in LoadersOf(r) :
         /\ compRegs < MaxComponentRegs
         /\ compRegs' = compRegs + 1
         /\ RegisterComponent(r, id, loader, NoMeta)
  \/ \E r \in RT, id \in Ids : RenderToString(r, id, NoFragment)
  \/ \E c \in 1..MaxRenders, outcome \in LoaderOutcomes : LoaderReturn(c, outcome)
  \/ \E c \in 1..MaxRenders : EngineCall(c)
  \/ \E c \in 1..MaxRenders, ok \in BOOLEAN : EngineReturn(c, ok)
  \/ \E id \in Ids : RemoveFromCache(id)
  \/ ClearComponentCache

SpecResolve == InitResolve /\ [][NextResolve]_vars

----------------------------------------------------------------------------
\* Registry operations

\* Bounds and inputs of the registry exploration.
MaxBatch == 2
RegistryIds == {"hero", "card", "cta"}
Registrations ==
  {[loader |-> "lA1", meta |-> NoMeta],
   [loader |-> "lA2",
    meta |-> [category |-> "form", tags |-> {"input", "interactive"}]],
   [loader |-> "lA1", meta |-> [category |-> "layout", tags |-> {"input"}]],
   [loader |-> NotCallable, meta |-> NoMeta]}

\* An unregisterComponent that reports success whatever it found.
UnregisterComponentTrue(r, id) ==
  /\ registry' = [registry EXCEPT ![r] = RegDelete(@, id)]
  /\ regOrder' = [regOrder EXCEPT ![r] = OrderDrop(@, id)]
  /\ sync' = [op |-> "unregisterComponent", ret |-> "true"]
  /\ thrown' = ""
  /\ UNCHANGED <<componentCache, loaderCalls, rcalls, compRegs, cacheGen>>
  /\ UNCHANGED <<svars, cvars>>

\* unregisterComponent(id) on runtime r: return this.registry.delete(id).
UnregisterComponent(r, id) ==
  /\ registry' = [registry EXCEPT ![r] = RegDelete(@, id)]
  /\ regOrder' = [regOrder EXCEPT ![r] = OrderDrop(@, id)]
  /\ sync' = [op |-> "unregisterComponent",
              ret |-> IF RegHas(registry[r], id) THEN "true" ELSE "false"]
  /\ thrown' = ""
  /\ UNCHANGED <<componentCache, loaderCalls, rcalls, compRegs, cacheGen>>
  /\ UNCHANGED <<svars, cvars>>

\* An entry of a batch that registerComponents rejects.
Malformed(entry) == BadId(entry.id) \/ BadLoader(entry.loader)

\* The entries the loop of registerComponents stores before it returns or
\* throws: the entries in front of the first malformed one.
RECURSIVE Stored(_)
Stored(entries) ==
  IF entries = <<>> \/ Malformed(Head(entries)) THEN <<>>
  ELSE <<Head(entries)>> \o Stored(Tail(entries))

\* this.registry.set(entry.id, entry) for each of the entries, in order.
RECURSIVE SetAll(_, _)
SetAll(reg, entries) ==
  IF entries = <<>> THEN reg
  ELSE SetAll(RegSet(reg, Head(entries)), Tail(entries))

RECURSIVE OrderAddAll(_, _)
OrderAddAll(order, entries) ==
  IF entries = <<>> THEN order
  ELSE OrderAddAll(OrderAdd(order, Head(entries).id), Tail(entries))

\* registerComponents(entries) on runtime r; batch.array tells whether the
\* argument is an array at all.
RegisterComponents(r, batch) ==
  /\ UNCHANGED <<componentCache, loaderCalls, rcalls, compRegs, cacheGen>>
  /\ UNCHANGED <<svars, cvars>>
  /\ IF ~batch.array
       THEN /\ thrown' = "InvalidArgument"
            /\ sync' = [op |-> "registerComponents", ret |-> "throw"]
            /\ UNCHANGED <<registry, regOrder>>
       ELSE LET stored == Stored(batch.entries)
                failed == Len(stored) < Len(batch.entries)
            IN /\ thrown' = IF failed THEN "InvalidArgument" ELSE ""
               /\ sync' = [op |-> "registerComponents",
                           ret |-> IF failed THEN "throw" ELSE "void"]
               /\ registry' = [registry EXCEPT ![r] = SetAll(@, stored)]
               /\ regOrder' = [regOrder EXCEPT ![r] = OrderAddAll(@, stored)]

\* Renders on a registry that changes: runtime rtA registers and unregisters
\* the id while at most MaxLookups renderToString calls of either runtime run.
MaxLookups == 2

NextLookup ==
  \/ \E id \in Ids, loader \in LoadersOf("rtA") :
       RegisterComponent("rtA", id, loader, NoMeta) /\ UNCHANGED compRegs
  \/ \E id \in Ids : UnregisterComponent("rtA", id)
  \/ \E r \in RT, id \in Ids :
       Len(rcalls) < MaxLookups /\ RenderToString(r, id, NoFragment)
  \/ \E c \in 1..MaxLookups, outcome \in LoaderOutcomes :
       LoaderReturn(c, outcome)
  \/ \E c \in 1..MaxLookups : EngineCall(c)
  \/ \E c \in 1..MaxLookups, ok \in BOOLEAN : EngineReturn(c, ok)

SpecLookup == InitResolve /\ [][NextLookup]_vars

\* Renders of an id that runtime rtA registers again, alone and in a batch,
\* and unregisters, with per-id invalidation of the cache.
NextReRegister ==
  \/ \E id \in Ids, loader \in LoadersOf("rtA") :
       RegisterComponent("rtA", id, loader, NoMeta) /\ UNCHANGED compRegs
  \/ \E id \in Ids, loader \in LoadersOf("rtA") :
       RegisterComponents("rtA",
         [array |-> TRUE,
          entries |-> <<[id |-> id, loader |-> loader, meta |-> NoMeta]>>])
  \/ \E id \in Ids : UnregisterComponent("rtA", id)
  \/ \E id \in Ids :
       Len(rcalls) < MaxLookups /\ RenderToString("rtA", id, NoFragment)
  \/ \E c \in 1..MaxLookups, outcome \in LoaderOutcomes :
       LoaderReturn(c, outcome)
  \/ \E c \in 1..MaxLookups : EngineCall(c)
  \/ \E c \in 1..MaxLookups, ok \in BOOLEAN : EngineReturn(c, ok)
  \/ \E id \in Ids : RemoveFromCache(id)

SpecReRegister == InitResolve /\ [][NextReRegister]_vars

----------------------------------------------------------------------------
\* Base context and renders of a component handle

\* Arguments of setBaseContext that validateContext rejects: a value whose
\* typeof is not "object" (a string, undefined), and null.
NotAnObject == "notAnObject"
Null == "null"

\* A setBaseContext that copies the keys of its argument onto the stored base
\* context and keeps the keys the argument does not have.
SetBaseContextMerged(r, arg) ==
  /\ IF arg \in {NotAnObject, Null}
       THEN /\ thrown' = "InvalidArgument"
            /\ sync' = [op |-> "setBaseContext", rt |-> r, arg |-> arg,
                        ret |-> "throw"]
            /\ UNCHANGED cvars
       ELSE /\ arg \in DOMAIN heap
            /\ thrown' = ""
            /\ sync' = [op |-> "setBaseContext", rt |-> r, arg |-> arg,
                        ret |-> "void"]
            /\ heap' = [heap EXCEPT ![baseContext[r]] = Assign(@, heap[arg])]
            /\ UNCHANGED baseContext
  /\ UNCHANGED <<registry, componentCache, loaderCalls, rcalls, compRegs,
               cacheGen, regOrder>>
  /\ UNCHANGED svars

\* setBaseContext(context) on runtime r: validateContext(context), then
\* this.baseContext = context, the caller's object itself.
SetBaseContext(r, arg) ==
  /\ IF arg \in {NotAnObject, Null}
       THEN /\ thrown' = "InvalidArgument"
            /\ sync' = [op |-> "setBaseContext", rt |-> r, arg |-> arg,
                        ret |-> "throw"]
            /\ UNCHANGED cvars
       ELSE /\ arg \in DOMAIN heap
            /\ thrown' = ""
            /\ sync' = [op |-> "setBaseContext", rt |-> r, arg |-> arg,
                        ret |-> "void"]
            /\ baseContext' = [baseContext EXCEPT ![r] = arg]
            /\ UNCHANGED heap
  /\ UNCHANGED <<registry, componentCache, loaderCalls, rcalls, compRegs,
               cacheGen, regOrder>>
  /\ UNCHANGED svars

\* The reference of the next object getBaseContext makes.
NextCopy(n) == CASE n = 0 -> "copy1" [] n = 1 -> "copy2" [] OTHER -> "copy3"

\* getBaseContext() on runtime r: return { ...this.baseContext }, a new object
\* with the own keys of the base context and their values.
GetBaseContext(r) ==
  LET made == Cardinality(CopyRefs \cap DOMAIN heap)
      ref == NextCopy(made)
  IN /\ made < MaxCopies
     /\ heap' = [o \in DOMAIN heap \cup {ref} |->
                  IF o = ref THEN heap[baseContext[r]] ELSE heap[o]]
     /\ sync' = [op |-> "getBaseContext", rt |-> r, arg |-> Absent,
                 ret |-> ref]
     /\ thrown' = ""
     /\ UNCHANGED <<registry, componentCache, loaderCalls, rcalls, compRegs,
                  cacheGen, regOrder, baseContext>>
     /\ UNCHANGED svars

\* The caller sets key k of an object it holds to value v: ref[k] = v.
SetKey(ref, k, v) ==
  /\ ref \in CallerRefs \cap DOMAIN heap
  /\ heap' = [heap EXCEPT ![ref] =
                [q \in DOMAIN @ \cup {k} |-> IF q = k THEN v ELSE @[q]]]
  /\ heap'[ref] # heap[ref]
  /\ UNCHANGED <<registry, componentCache, loaderCalls, rcalls, compRegs,
               cacheGen, regOrder, sync, thrown, baseContext>>
  /\ UNCHANGED svars

\* The caller removes key k from an object it holds: delete ref[k].
DeleteKey(ref, k) ==
  /\ ref \in CallerRefs \cap DOMAIN heap
  /\ k \in DOMAIN heap[ref]
  /\ heap' = [heap EXCEPT ![ref] = [q \in DOMAIN @ \ {k} |-> @[q]]]
  /\ UNCHANGED <<registry, componentCache, loaderCalls, rcalls, compRegs,
               cacheGen, regOrder, sync, thrown, baseContext>>
  /\ UNCHANGED svars

\* renderComponent(component, props, override) on runtime r, called by op: the
\* merge, and this.container.render up to its await.
RenderDirect(r, component, override, op) ==
  /\ Len(rcalls) < MaxRenders
  /\ rcalls' = Append(rcalls,
       [rt |-> r, id |-> Absent, pc |-> "rendering", loader |-> Absent,
        inv |-> 0, component |-> component, rendered |-> component,
        err |-> "", before |-> ResolveSettled(rcalls), igen |-> 0, rgen |-> 0,
        op |-> op, override |-> override,
        context |-> MergedContext(heap[baseContext[r]], override),
        styles |-> Undefined, ret |-> <<>>, base |-> baseContext[r]])
  /\ heap' = [heap EXCEPT ![baseContext[r]] = AfterMerge(@, override)]
  /\ UNCHANGED <<registry, componentCache, loaderCalls, compRegs, cacheGen,
               regOrder, sync, thrown, baseContext>>
  /\ UNCHANGED svars

\* renderComponent(component, props, override) on runtime r.
RenderComponent(r, component, override) ==
  RenderDirect(r, component, override, "renderComponent")

\* renderToResponse(component, props, options) on runtime r, up to its await
\* of this.renderComponent(component, props).
RenderToResponse(r, component) ==
  RenderDirect(r, component, NoFragment, "renderToResponse")

\* The per-call contexts and the component handles of the exploration.
Overrides ==
  {NoFragment, Given([locale |-> "b"]),
   Given([channel |-> "b", locale |-> Undefined])}
Components == {Handle("lA1", 0)}

\* The base context operations of both runtimes and what the caller does to
\* the objects it holds (it writes and removes their locale).
NextBase ==
  \/ \E r \in RT, arg \in CallerRefs \cup {NotAnObject, Null} :
       SetBaseContext(r, arg)
  \/ \E r \in RT : GetBaseContext(r)
  \/ \E ref \in CallerRefs : SetKey(ref, "locale", "b")
  \/ \E ref \in CallerRefs : DeleteKey(ref, "locale")

SpecBase == InitResolve /\ [][NextBase]_vars

\* Renders of both runtimes, by id and by handle, with and without a
\* per-call context, while base contexts are replaced. At most
\* MaxContextRenders render calls are issued.
MaxContextRenders == 1

NextRender ==
  \/ \E r \in RT, id \in Ids, override \in Overrides :
       Len(rcalls) < MaxContextRenders /\ RenderToString(r, id, override)
  \/ \E c \in 1..MaxContextRenders, outcome \in LoaderOutcomes :
       LoaderReturn(c, outcome)
  \/ \E c \in 1..MaxContextRenders : EngineCall(c)
  \/ \E c \in 1..MaxContextRenders, ok \in BOOLEAN : EngineReturn(c, ok)
  \/ \E r \in RT, component \in Components, override \in Overrides :
       Len(rcalls) < MaxContextRenders /\ RenderComponent(r, component, override)
  \/ \E r \in RT, component \in Components :
       Len(rcalls) < MaxContextRenders /\ RenderToResponse(r, component)
  \/ \E r \in RT, arg \in {"cfg", "own", NotAnObject} :
       SetBaseContext(r, arg)

SpecRender == InitResolve /\ [][NextRender]_vars

\* Route adapters: createNodeRouteHandler, createCloudflareRouteHandler and
\* createVercelServerlessHandler. A message is the sequence of its words.
Adapters == {"node", "cloudflare", "vercel"}

\* message.includes(part)
Includes(message, part) ==
  \E i \in 0..(Len(message) - Len(part)) :
    \A j \in 1..Len(part) : message[i + j] = part[j]

\* new Error(message), and a thrown value that is not an Error.
ErrorOf(message) == [isError |-> TRUE, message |-> message]
NotAnError == [isError |-> FALSE, message |-> <<>>]

\* What a loader or the rendering engine rejects with.
ExternalFailures ==
  {ErrorOf(<<"boom">>), ErrorOf(<<"not", "a", "function">>),
   ErrorOf(<<"module", "not", "found">>), NotAnError}

\* What renderToString rejects with in a failed call: its own Error for an id
\* that is not registered, the Error of resolveComponent for a module without
\* a default export, or whatever the loader or the engine rejected with.
Thrown(call, external) ==
  CASE call.err = "NotFound" ->
         ErrorOf(<<"Component", call.id, "not", "found", "in", "registry">>)
    [] call.err = "ResolutionError" ->
         ErrorOf(<<"Component", call.id, "does", "not", "have", "a", "default",
                   "export">>)
    [] OTHER -> external

\* The route handler of an adapter is called for id on runtime r: the try
\* block up to the await of runtime.renderToString.
RouteHandler(adapter, r, id, override) ==
  /\ sync = NoCall
  /\ RenderToStringCall(r, id, override)
  /\ sync' = [op |-> "routeHandler", adapter |-> adapter,
              call |-> Len(rcalls) + 1, status |-> 0, body |-> <<>>,
              error |-> NotAnError]

\* renderToString has settled and the route handler answers: the markup with
\* defaultStatus, or from the catch block 404 when the thrown value is an Error
\* whose message includes "not found", and 500 otherwise.
RouteResponse(external) ==
  /\ sync.op = "routeHandler"
  /\ sync.status = 0
  /\ rcalls[sync.call].pc \in {"done", "failed"}
  /\ LET call == rcalls[sync.call]
         error == Thrown(call, external)
     IN sync' =
          IF call.pc = "done"
            THEN [sync EXCEPT !.status = 200, !.body = <<"html">>]
          ELSE IF error.isError /\ Includes(error.message, <<"not", "found">>)
            THEN [sync EXCEPT !.status = 404, !.error = error,
                              !.body = <<"Component", "not", "found:", call.id>>]
          ELSE [sync EXCEPT !.status = 500, !.error = error,
                            !.body = <<"Error", "rendering", "component:">> \o
                                     (IF error.isError THEN error.message
                                      ELSE <<"Unknown", "error">>)]
  /\ UNCHANGED <<registry, componentCache, loaderCalls, rcalls, compRegs,
               cacheGen, thrown, regOrder>>
  /\ UNCHANGED <<svars, cvars>>

\* One call of a route handler of some adapter, with the loader and the engine
\* settling in every way.
NextAdapter ==
  \/ \E adapter \in Adapters, r \in RT, id \in Ids, override \in Overrides :
       RouteHandler(adapter, r, id, override)
  \/ \E c \in 1..MaxRenders, outcome \in LoaderOutcomes :
       LoaderReturn(c, outcome)
  \/ \E c \in 1..MaxRenders : EngineCall(c)
  \/ \E c \in 1..MaxRenders, ok \in BOOLEAN : EngineReturn(c, ok)
  \/ \E external \in ExternalFailures : RouteResponse(external)

SpecAdapter == InitResolve /\ [][NextAdapter]_vars

\* Responses of renderToResponse.

\* The defaults of renderToResponse.
DefaultStatus == 200
DefaultContentType == "text/html; charset=utf-8"

\* A header name as Headers keeps it: in lower case.
Lower(name) ==
  CASE name = "Content-Type" -> "content-type"
    [] name = "X-Trace" -> "x-trace"
    [] OTHER -> name

\* new Headers(init): the caller's headers under their lower-case names; init
\* is the empty function when the caller gave no headers.
HeadersOf(init) ==
  [n \in {Lower(k) : k \in DOMAIN init} |->
     init[CHOOSE k \in DOMAIN init : Lower(k) = n]]

\* A headers.has(name) that compares the name as it is written.
HeadersHasExact(headers, name) == name \in DOMAIN headers

\* headers.has(name): the comparison ignores case.
HeadersHas(headers, name) == Lower(name) \in DOMAIN headers

\* headers.set(name, value)
HeadersSet(headers, name, value) ==
  [n \in DOMAIN headers \cup {Lower(name)} |->
     IF n = Lower(name) THEN value ELSE headers[n]]

\* The Response renderToResponse builds around html for options; options is
\* the empty function when the caller gave none, and has the keys the caller
\* set otherwise.
ResponseOf(html, options) ==
  LET given == IF "headers" \in DOMAIN options
                 THEN HeadersOf(options.headers) ELSE <<>>
      headers == IF HeadersHas(given, "Content-Type") THEN given
                 ELSE HeadersSet(given, "Content-Type",
                        IF "contentType" \in DOMAIN options
                          THEN options.contentType ELSE DefaultContentType)
  IN [body |-> html,
      status |-> IF "status" \in DOMAIN options
                   THEN options.status ELSE DefaultStatus,
      headers |-> headers]

\* renderToResponse call c resumes after await this.renderComponent(component,
\* props), reads its options and returns the Response.
RenderToResponseReturn(c, options) ==
  /\ c \in 1..Len(rcalls)
  /\ rcalls[c].op = "renderToResponse"
  /\ rcalls[c].pc = "done"
  /\ sync = NoCall
  /\ sync' = [op |-> "renderToResponse", call |-> c, options |-> options,
              ret |-> ResponseOf(rcalls[c].ret, options)]
  /\ UNCHANGED <<registry, componentCache, loaderCalls, rcalls, compRegs,
               cacheGen, thrown, regOrder>>
  /\ UNCHANGED <<svars, cvars>>

\* The headers and the options a caller of renderToResponse gives.
CallerHeaders ==
  {<<>>, [x \in {"X-Trace"} |-> "1"],
   [x \in {"content-type"} |-> "application/json"],
   [x \in {"Content-Type", "X-Trace"} |->
      IF x = "X-Trace" THEN "1" ELSE "text/plain"]}
FullOptions ==
  {[status |-> st, headers |-> h, contentType |-> "text/xml"] :
     st \in {201, 404}, h \in CallerHeaders}
ResponseOptions ==
  {[k \in keys |-> full[k]] :
     keys \in SUBSET {"status", "headers", "contentType"}, full \in FullOptions}

\* One renderToResponse call on either runtime, with the engine settling either
\* way.
NextResponse ==
  \/ \E r \in RT, component \in {Handle("lA1", 0), Handle("lB1", 0)} :
       Len(rcalls) < MaxContextRenders /\ RenderToResponse(r, component)
  \/ \E c \in 1..MaxContextRenders, ok \in BOOLEAN : EngineReturn(c, ok)
  \/ \E c \in 1..MaxContextRenders, options \in ResponseOptions :
       RenderToResponseReturn(c, options)

SpecResponse == InitResolve /\ [][NextResponse]_vars

\* Inline styles. rtB is constructed with a config entry that has a styles
\* property; on rtA the callers register entries with and without one, and
\* with styles among the metadata, in each of the ways the runtime offers.
StyledMeta == [category |-> Absent, tags |-> {}, styles |-> "p{}"]
ConfigStyled ==
  <<[id |-> "hero", loader |-> "lB1", meta |-> NoMeta, styles |-> "h1{}"]>>
StyleEntries ==
  {[id |-> "hero", loader |-> "lA2", meta |-> NoMeta],
   [id |-> "hero", loader |-> "lA2", meta |-> StyledMeta],
   [id |-> "hero", loader |-> "lA2", meta |-> NoMeta, styles |-> ""],
   [id |-> "hero", loader |-> "lA2", meta |-> NoMeta, styles |-> "a{}"]}

InitStyles ==
  /\ registry = [r \in RT |-> IF r = "rtA" THEN ConfigComponents(r, TRUE)
                              ELSE ConfigStyled]
  /\ componentCache = [i \in Ids |-> NoObject]
  /\ loaderCalls = [l \in Loaders |-> 0]
  /\ rcalls = <<>>
  /\ compRegs = 0
  /\ cacheGen = [i \in Ids |-> 0]
  /\ regOrder = [r \in RT |-> RegIds(registry[r])]
  /\ sync = NoCall
  /\ thrown = ""
  /\ IdleS
  /\ InitC

NextStyles ==
  \/ \E meta \in {NoMeta, StyledMeta} :
       /\ compRegs < MaxComponentRegs
       /\ compRegs' = compRegs + 1
       /\ RegisterComponent("rtA", "hero", "lA1", meta)
  \/ \E entry \in StyleEntries :
       RegisterComponents("rtA", [array |-> TRUE, entries |-> <<entry>>])
  \/ \E r \in RT, id \in Ids :
       Len(rcalls) < MaxContextRenders /\ RenderToString(r, id, NoFragment)
  \/ \E c \in 1..MaxContextRenders, outcome \in LoaderOutcomes :
       LoaderReturn(c, outcome)
  \/ \E c \in 1..MaxContextRenders : EngineCall(c)
  \/ \E c \in 1..MaxContextRenders, ok \in BOOLEAN : EngineReturn(c, ok)

SpecStyles == InitStyles /\ [][NextStyles]_vars

\* Calls that run to their end: renderToString and getService calls on both
\* runtimes, at most MaxContextRenders of each. Every loader, factory and
\* engine invocation returns at some time, and a call whose await has settled
\* is resumed by the event loop.
InitLive == InitS /\ InitR /\ InitC

NextLive ==
  \/ \E r \in RT, id \in Ids, override \in Overrides :
       Len(rcalls) < MaxContextRenders /\ RenderToString(r, id, override)
  \/ \E c \in 1..MaxContextRenders, outcome \in LoaderOutcomes :
       LoaderReturn(c, outcome)
  \/ \E c \in 1..MaxContextRenders : EngineCall(c)
  \/ \E c \in 1..MaxContextRenders, ok \in BOOLEAN : EngineReturn(c, ok)
  \/ \E r \in RT, name \in Names :
       Len(gcalls) < MaxContextRenders /\ GetService(r, name)
  \/ \E c \in 1..MaxContextRenders, ok \in BOOLEAN : FactoryReturn(c, ok)

FairLive ==
  \A c \in 1..MaxContextRenders :
    /\ WF_vars(\E outcome \in LoaderOutcomes : LoaderReturn(c, outcome))
    /\ WF_vars(EngineCall(c))
    /\ WF_vars(\E ok \in BOOLEAN : EngineReturn(c, ok))
    /\ WF_vars(\E ok \in BOOLEAN : FactoryReturn(c, ok))

SpecLive == InitLive /\ [][NextLive]_vars /\ FairLive

\* hasComponent(id), getComponent(id) on the registry of a runtime;
\* getComponent gives NoEntry for undefined.
NoEntry == [id |-> Absent, loader |-> Absent, meta |-> NoMeta]
HasComponent(reg, id) == RegHas(reg, id)
GetComponent(reg, id) == IF RegHas(reg, id) THEN RegGet(reg, id) ELSE NoEntry

\* A filter: category and tag are strings (Absent when the field is missing),
\* tags is the set of the tags array (empty for a missing or an empty array),
\* predicate names the custom predicate (Absent when missing). A call without
\* a filter returns what the call with NoFilter returns: every entry.
NoFilter == [category |-> Absent, tag |-> Absent, tags |-> {},
             predicate |-> Absent]

\* The truthiness test of `filter.category &&` and `if (filter.tag)`.
Truthy(str) == str # Absent /\ str # ""

\* The custom predicates of the exploration.
Predicate(p, entry) ==
  CASE p = "usesLA1" -> entry.loader = "lA1"
    [] p = "never" -> FALSE
    [] OTHER -> TRUE

\* The callback of entries.filter in listComponents.
Passes(entry, filter) ==
  /\ ~(Truthy(filter.category) /\ entry.meta.category # filter.category)
  /\ ~(Truthy(filter.tag) /\ filter.tag \notin entry.meta.tags)
  /\ ~(filter.tags # {} /\ ~(filter.tags \subseteq entry.meta.tags))
  /\ ~(filter.predicate # Absent /\ ~Predicate(filter.predicate, entry))

\* listComponents(filter) on the registry of a runtime.
ListComponents(reg, filter) ==
  IF filter = NoFilter THEN reg
  ELSE SelectSeq(reg, LAMBDA entry : Passes(entry, filter))

\* The batches of the exploration: up to MaxBatch entries, each with a good or
\* an empty id and a good or a non-callable loader.
BatchEntries ==
  {[id |-> i, loader |-> l, meta |-> NoMeta] :
     i \in {"hero", "card", ""}, l \in {"lA2", NotCallable}}
Batches ==
  {[array |-> FALSE, entries |-> <<>>]} \cup
  {[array |-> TRUE, entries |-> es] :
     es \in UNION {[1..k -> BatchEntries] : k \in 0..MaxBatch}}

\* The registry operations of runtime rtA, in any order and number.
NextRegistry ==
  \/ \E id \in RegistryIds \cup {"", NotAString}, reg \in Registrations :
       RegisterComponent("rtA", id, reg.loader, reg.meta)
       /\ UNCHANGED compRegs
  \/ \E batch \in Batches : RegisterComponents("rtA", batch)
  \/ \E id \in RegistryIds : UnregisterComponent("rtA", id)

SpecRegistry == InitResolve /\ [][NextRegistry]_vars

----------------------------------------------------------------------------
\* Context merging

\* A call of mergeContexts with the given fragments.
CallMergeContexts(contexts) ==
  /\ sync' = [op |-> "mergeContexts", args |-> contexts,
              ret |-> mergeContexts(contexts)]
  /\ UNCHANGED <<registry, componentCache, loaderCalls, rcalls, compRegs,
               cacheGen, regOrder, thrown>>
  /\ UNCHANGED <<svars, cvars>>

\* One call per behaviour: the function is pure, a second call adds nothing.
NextContext ==
  /\ sync = NoCall
  /\ \E n \in 0..MaxFragments :
       \E contexts \in [1..n -> Fragments] : CallMergeContexts(contexts)

SpecContext == InitResolve /\ [][NextContext]_vars

----------------------------------------------------------------------------
\* Properties of the service locator

\* Calls a and b ask the same runtime for the same service name.
SameService(a, b) ==
  gcalls[a].rt = gcalls[b].rt /\ gcalls[a].name = gcalls[b].name

\* Call b was issued while call a, which found the name registered and not yet
\* built, had not completed, with no registerService for the name in between.
Overlap(a, b) ==
  /\ a < b
  /\ SameService(a, b)
  /\ gcalls[a].inv > 0
  /\ a \notin gcalls[b].before
  /\ gcalls[a].gen = gcalls[b].gen

\* C3: of the getService calls for one registered, not-yet-built name that are
\* issued before the first of them completes, only the first invokes the
\* factory, so that the factory is invoked exactly once.
C3_FactoryInvokedOnce ==
  \A a, b \in 1..Len(gcalls) : Overlap(a, b) => gcalls[b].inv = 0

\* C4: getService calls for one not-yet-built name that overlap in time settle
\* with the same instance or the same failure, and that instance is the one
\* that stays memoized while the service is not registered again.
C4_OverlappingSameInstance ==
  \A a, b \in 1..Len(gcalls) :
    (Overlap(a, b) /\ {a, b} \subseteq Settled(gcalls)) =>
      /\ gcalls[a].result = gcalls[b].result
      /\ gcalls[a].err = gcalls[b].err
      /\ (gcalls[a].pc = "done" /\ regGen[gcalls[a].rt][gcalls[a].name] = gcalls[a].gen)
           => serviceInstances[gcalls[a].rt][gcalls[a].name] = gcalls[a].result

\* Every instance runtime r memoizes or returns was built by a factory that
\* was registered with r.
OwnInstances ==
  /\ \A r \in RT, n \in Names :
       serviceInstances[r][n] # NoObject =>
         serviceInstances[r][n].by \in FactoriesOf(r)
  /\ \A c \in 1..Len(gcalls) :
       gcalls[c].result # NoObject =>
         gcalls[c].result.by \in FactoriesOf(gcalls[c].rt)

\* This step is a registerService or a resumed getService of runtime r.
StepOf(r) ==
  \/ regGen'[r] # regGen[r]
  \/ \E c \in 1..Len(gcalls) :
       gcalls[c].rt = r /\ gcalls[c].pc = "building" /\ gcalls'[c].pc # "building"

\* C6: the service definitions and the memoized instances belong to one
\* runtime: each runtime memoizes and returns only instances built by its own
\* factories, and a step that changes the definitions or memoized instances of
\* a runtime is a registration or a build of that same runtime.
C6_ServiceCachePerRuntime ==
  [][/\ OwnInstances'
     /\ \A r \in RT :
          (services'[r] # services[r] \/ serviceInstances'[r] # serviceInstances[r])
            => StepOf(r)]_vars

\* C6 witness: both runtimes hold a memoized instance of "x", each built by a
\* factory of its own.
C6_Witness ==
  /\ serviceInstances["rtA"]["x"] # NoObject
  /\ serviceInstances["rtB"]["x"] # NoObject
  /\ serviceInstances["rtA"]["x"].by # serviceInstances["rtB"]["x"].by

\* This step is getService call c resuming with a failed factory.
BuildFails(c) ==
  /\ c \in 1..Len(gcalls)
  /\ gcalls[c].pc = "building"
  /\ gcalls'[c].pc = "failed"

\* C8: when a factory fails, getService fails with that failure and stores
\* nothing in the memoized-instance cache, and the next getService call for the
\* name invokes the factory again.
C8_FailedBuildRetried ==
  [][/\ \A c \in 1..MaxGets :
          BuildFails(c) => /\ gcalls'[c].err = "ServiceBuildError"
                           /\ gcalls'[c].result = NoObject
                           /\ serviceInstances' = serviceInstances
     /\ \A b \in 1..Len(gcalls') :
          "fail" \in gcalls'[b].mark => gcalls'[b].inv > 0]_vars

\* C9: of two sequential getService calls for one name (the second issued after
\* the first returned) with no registerService for the name in between, the
\* second returns the instance the first returned and invokes no factory.
C9_SequentialSameInstance ==
  \A a, b \in 1..Len(gcalls) :
    (/\ a < b
     /\ SameService(a, b)
     /\ gcalls[a].pc = "done"
     /\ a \in gcalls[b].before
     /\ gcalls[a].gen = gcalls[b].gen) =>
      /\ gcalls[b].inv = 0
      /\ gcalls[b].result = gcalls[a].result

\* C10: the first getService issued after a registerService that found a
\* memoized instance for the name invokes the factory registered last and
\* returns the instance of that invocation, not a previously built one.
C10_ReRegisterRebuilds ==
  \A b \in 1..Len(gcalls) :
    "discard" \in gcalls[b].mark =>
      /\ gcalls[b].inv > 0
      /\ gcalls[b].pc = "done" =>
           gcalls[b].result = Instance(gcalls[b].factory, gcalls[b].inv)

----------------------------------------------------------------------------
\* Properties of component resolution

\* Calls a and b render the same id on the same runtime.
SameComponent(a, b) ==
  rcalls[a].rt = rcalls[b].rt /\ rcalls[a].id = rcalls[b].id

\* Call b was issued while the resolve of call a, which found the id
\* unresolved and invoked the entry's loader, had not completed; both resolve
\* the same registry entry and no invalidation lies between them.
OverlapResolve(a, b) ==
  /\ a < b
  /\ SameComponent(a, b)
  /\ rcalls[a].inv > 0
  /\ rcalls[b].loader = rcalls[a].loader
  /\ a \notin rcalls[b].before
  /\ rcalls[a].igen = rcalls[b].igen

\* The failure resolveComponent ended with in call c, "" if it did not fail.
ResolveErr(c) ==
  IF rcalls[c].err \in {"LoaderError", "ResolutionError"}
    THEN rcalls[c].err ELSE ""

\* C1: of the resolve calls for one id that are issued before the first of
\* them completes, only the first invokes the entry's loader: the loader is
\* invoked at most once in total.
C1_LoaderInvokedOnce ==
  \A a, b \in 1..Len(rcalls) : OverlapResolve(a, b) => rcalls[b].inv = 0

\* C2: resolve calls for one unresolved id that overlap in time finish with
\* the same outcome: the identical component handle for all of them, or the
\* same failure for all of them.
C2_OverlappingSameOutcome ==
  \A a, b \in 1..Len(rcalls) :
    (OverlapResolve(a, b) /\ {a, b} \subseteq ResolveSettled(rcalls)) =>
      /\ rcalls[a].component = rcalls[b].component
      /\ ResolveErr(a) = ResolveErr(b)

\* C5: the handle a renderToString call of runtime r hands to the rendering
\* engine was produced by a loader registered with r, never by a loader of
\* the other runtime.
C5_ResolutionCachePerRuntime ==
  \A c \in 1..Len(rcalls) :
    rcalls[c].rendered # NoObject =>
      rcalls[c].rendered.by \in LoadersOf(rcalls[c].rt)

\* C7: once a resolve call for an id has completed successfully, every resolve
\* call for the id issued later and before any invalidation of the id returns
\* the identical handle and does not invoke the loader.
C7_ResolvedStaysCached ==
  \A a, b \in 1..Len(rcalls) :
    (/\ a < b
     /\ SameComponent(a, b)
     /\ rcalls[a].component # NoObject
     /\ a \in rcalls[b].before
     /\ rcalls[a].rgen = rcalls[b].igen) =>
      /\ rcalls[b].inv = 0
      /\ rcalls[b].component = rcalls[a].component

----------------------------------------------------------------------------
\* Properties of the error paths

\* The step issues a renderToString call for id on runtime r.
IssuesRender(r, id) ==
  /\ Len(rcalls') = Len(rcalls) + 1
  /\ rcalls'[Len(rcalls')].rt = r
  /\ rcalls'[Len(rcalls')].id = id

\* C11: a renderToString call for an id that is not in the registry of its
\* runtime when it is issued fails with NotFound for that id without invoking
\* a loader, whatever the resolution cache holds, and never goes on to the
\* rendering engine.
C11_MissingIdNotFound ==
  [][ /\ \A r \in RT, id \in Ids :
          IssuesRender(r, id) /\ ~RegHas(registry[r], id) =>
            /\ rcalls'[Len(rcalls')].pc = "failed"
            /\ rcalls'[Len(rcalls')].err = "NotFound"
            /\ rcalls'[Len(rcalls')].rendered = NoObject
            /\ loaderCalls' = loaderCalls
      /\ \A c \in 1..Len(rcalls) :
          rcalls[c].err = "NotFound" => rcalls'[c] = rcalls[c] ]_vars

\* A call failed with NotFound although an earlier call had resolved the id
\* and left its handle in the cache.
C11_Witness ==
  \E c \in 1..Len(rcalls), c0 \in 1..Len(rcalls) :
    /\ rcalls[c].err = "NotFound"
    /\ rcalls[c].id = rcalls[c0].id
    /\ c0 \in rcalls[c].before
    /\ rcalls[c0].pc \in {"resolved", "rendering", "done"}
    /\ componentCache[rcalls[c].id] # NoObject

\* The step issues a getService call for name on runtime r.
IssuesGet(r, name) ==
  /\ Len(gcalls') = Len(gcalls) + 1
  /\ gcalls'[Len(gcalls')].rt = r
  /\ gcalls'[Len(gcalls')].name = name

\* C12: a getService call for a name that has no definition on its runtime
\* when it is issued fails with NotFound for that name, invokes no factory and
\* leaves every runtime's definitions and memoized instances as they were.
C12_UnregisteredServiceNotFound ==
  [][ /\ \A r \in RT, name \in Names :
          IssuesGet(r, name) /\ services[r][name] = Absent =>
            /\ gcalls'[Len(gcalls')].pc = "failed"
            /\ gcalls'[Len(gcalls')].err = "NotFound"
            /\ gcalls'[Len(gcalls')].result = NoObject
            /\ factoryCalls' = factoryCalls
            /\ services' = services
            /\ serviceInstances' = serviceInstances
      /\ \A c \in 1..Len(gcalls) :
          gcalls[c].err = "NotFound" => gcalls'[c] = gcalls[c] ]_vars

\* A call on rtB failed with NotFound while rtA holds a definition, and a
\* memoized instance, of the same name.
C12_Witness ==
  \E c \in 1..Len(gcalls) :
    /\ gcalls[c].err = "NotFound"
    /\ services[gcalls[c].rt][gcalls[c].name] = Absent
    /\ \E r \in RT : serviceInstances[r][gcalls[c].name] # NoObject

\* C13: a registerComponents call whose batch has a malformed entry fails and
\* leaves the registry exactly as it was before the call, also when
\* well-formed entries precede the malformed one.
C13_BatchAllOrNothing ==
  [][ \A batch \in Batches :
        /\ RegisterComponents("rtA", batch)
        /\ batch.array
        /\ \E i \in 1..Len(batch.entries) : Malformed(batch.entries[i])
        => thrown' = "InvalidArgument" /\ registry' = registry ]_vars

\* C14: a registerComponent call whose id is empty or not a string, or whose
\* loader is not callable, fails with InvalidArgument and leaves the registry
\* unchanged.
C14_InvalidRegistrationRejected ==
  [][ sync'.op = "registerComponent" =>
        \A id \in RegistryIds \cup {"", NotAString}, reg \in Registrations :
          /\ (id = "" \/ id = NotAString \/ reg.loader = NotCallable)
          /\ RegisterComponent("rtA", id, reg.loader, reg.meta)
          => thrown' = "InvalidArgument" /\ registry' = registry ]_vars

\* A registerComponent call has just been rejected on a registry that holds
\* entries.
C14_Witness ==
  /\ sync = [op |-> "registerComponent", ret |-> "throw"]
  /\ thrown = "InvalidArgument"
  /\ Len(registry["rtA"]) >= 2

----------------------------------------------------------------------------
\* Properties of the registry

\* The batches registerComponents accepts.
WellFormedBatches ==
  {batch \in Batches :
     /\ batch.array
     /\ \A i \in 1..Len(batch.entries) : ~Malformed(batch.entries[i])}

\* C15: the registry holds at most one entry per id, and after a registration
\* of an id, by registerComponent or by a well-formed batch, getComponent(id)
\* is exactly the id, loader and metadata last given for it: nothing of the
\* entry that was replaced remains.
C15_ReRegistrationReplaces ==
  [][ /\ \A i, j \in 1..Len(registry'["rtA"]) :
          registry'["rtA"][i].id = registry'["rtA"][j].id => i = j
      /\ sync'.op = "registerComponent" =>
          \A id \in RegistryIds, reg \in Registrations :
            /\ reg.loader # NotCallable
            /\ RegisterComponent("rtA", id, reg.loader, reg.meta)
            => GetComponent(registry'["rtA"], id) =
                 [id |-> id, loader |-> reg.loader, meta |-> reg.meta]
      /\ sync'.op = "registerComponents" =>
          \A batch \in WellFormedBatches :
            RegisterComponents("rtA", batch)
            => \A i \in 1..Len(batch.entries) :
                 (\A j \in (i+1)..Len(batch.entries) :
                    batch.entries[j].id # batch.entries[i].id)
                 => GetComponent(registry'["rtA"], batch.entries[i].id) =
                      batch.entries[i] ]_vars

\* A registerComponent call has replaced the entry hero was constructed with
\* by one with another loader and other metadata, before anything else was
\* registered.
C15_Witness ==
  /\ sync = [op |-> "registerComponent", ret |-> "void"]
  /\ registry["rtA"] =
       <<[id |-> "hero", loader |-> "lA2",
          meta |-> [category |-> "form", tags |-> {"input", "interactive"}]]>>

\* The elements of a sequence.
Range(seq) == {seq[i] : i \in 1..Len(seq)}

\* C16: listComponents() without a filter holds one entry for each id that
\* was registered and not unregistered since, and no other entry, and
\* hasComponent(id) and getComponent(id) agree with it: hasComponent is true
\* and getComponent gives the listed entry for the ids in the list, and false
\* and undefined for every other id.
C16_ListIsWhatIsPresent ==
  LET list == ListComponents(registry["rtA"], NoFilter)
  IN /\ {list[i].id : i \in 1..Len(list)} = Range(regOrder["rtA"])
     /\ Len(list) = Len(regOrder["rtA"])
     /\ \A id \in RegistryIds \cup {"", NotAString} :
          /\ HasComponent(registry["rtA"], id) <=>
               \E i \in 1..Len(list) : list[i].id = id
          /\ \A i \in 1..Len(list) :
               list[i].id = id => GetComponent(registry["rtA"], id) = list[i]
          /\ (\A i \in 1..Len(list) : list[i].id # id) =>
               GetComponent(registry["rtA"], id) = NoEntry

\* hero has just been unregistered while two ids registered after it remain.
C16_Witness ==
  /\ sync = [op |-> "unregisterComponent", ret |-> "true"]
  /\ Len(ListComponents(registry["rtA"], NoFilter)) = 2
  /\ ~HasComponent(registry["rtA"], "hero")

\* C17: the ids of listComponents() without a filter come in registration
\* order: an id registered again while present keeps its place, unregistering
\* an id leaves the order of the others, and an id registered after it was
\* unregistered comes after every id present at that time.
C17_ListInRegistrationOrder ==
  RegIds(ListComponents(registry["rtA"], NoFilter)) = regOrder["rtA"]

\* hero, the first id registered, was unregistered and then registered again
\* by a batch that also registered card again: hero is listed last and card,
\* with its new loader, still first.
C17_Witness ==
  /\ RegIds(ListComponents(registry["rtA"], NoFilter)) =
       <<"card", "cta", "hero">>
  /\ GetComponent(registry["rtA"], "card").loader = "lA2"
  /\ GetComponent(registry["rtA"], "cta").loader = "lA1"
  /\ sync = [op |-> "registerComponents", ret |-> "void"]

\* The filters of the exploration: each criterion missing, or given with one
\* of a few values; a string criterion can be given as the empty string.
Filters ==
  [category : {Absent, "", "form", "layout"},
   tag : {Absent, "", "input", "interactive"},
   tags : {{}, {"input"}, {"input", "interactive"}},
   predicate : {Absent, "usesLA1", "never"}]

\* The entry passes every criterion the filter has.
PassesEvery(entry, filter) ==
  /\ filter.category # Absent => entry.meta.category = filter.category
  /\ filter.tag # Absent => filter.tag \in entry.meta.tags
  /\ \A t \in filter.tags : t \in entry.meta.tags
  /\ filter.predicate # Absent => Predicate(filter.predicate, entry)

\* C18: listComponents(filter) is the registry's entries, in registration
\* order, that pass every criterion the filter has: the category is the
\* filter's, the tags hold the filter's single tag and every tag of its tag
\* set, and the predicate is true; a criterion the filter lacks excludes
\* nothing.
C18_FilterIsConjunctive ==
  \A filter \in Filters :
    ListComponents(registry["rtA"], filter) =
      SelectSeq(registry["rtA"], LAMBDA entry : PassesEvery(entry, filter))

\* C19: unregisterComponent(id) raises no error and returns true exactly when
\* the id was present; afterwards the id is absent and every other entry is
\* where it was, so the registry is unchanged when the id was not present and
\* an unregisterComponent of the same id that follows returns false.
C19_UnregisterReturnsPresence ==
  [][ sync'.op = "unregisterComponent" =>
        \A id \in RegistryIds :
          UnregisterComponent("rtA", id) =>
            /\ thrown' = ""
            /\ sync'.ret = "true" <=> HasComponent(registry["rtA"], id)
            /\ sync'.ret = "false" <=> ~HasComponent(registry["rtA"], id)
            /\ ~HasComponent(registry'["rtA"], id)
            /\ registry'["rtA"] =
                 SelectSeq(registry["rtA"], LAMBDA entry : entry.id # id)
            /\ ~HasComponent(registry["rtA"], id) => registry' = registry
            /\ sync.op = "unregisterComponent" /\ registry' = registry
                 => sync'.ret = "false" ]_vars

\* An unregisterComponent has just returned false on a registry that holds
\* other ids than hero.
C19_Witness ==
  /\ sync = [op |-> "unregisterComponent", ret |-> "false"]
  /\ ~HasComponent(registry["rtA"], "hero")
  /\ Len(registry["rtA"]) = 2

----------------------------------------------------------------------------
\* Properties of the context merger

\* C20: the context mergeContexts returns has exactly the keys of the
\* fragments that were given, each with the value it has in the last given
\* fragment that has the key; fragments that are undefined add nothing.
C20_MergeLastWins ==
  sync.op = "mergeContexts" =>
    LET given == {i \in 1..Len(sync.args) : sync.args[i].given}
        has(k) == {i \in given : k \in DOMAIN sync.args[i].ctx}
    IN /\ DOMAIN sync.ret = {k \in CtxKeys : has(k) # {}}
       /\ \A k \in DOMAIN sync.ret :
            \E i \in has(k) :
              /\ \A j \in has(k) : j <= i
              /\ sync.ret[k] = sync.args[i].ctx[k]

\* A merge of a fragment with both keys, an undefined fragment and a fragment
\* that has one of the keys again: the later value won, the other key was
\* inherited.
C20_Witness ==
  /\ sync.op = "mergeContexts"
  /\ sync.args = <<[given |-> TRUE, ctx |-> [locale |-> "a", channel |-> "a"]],
                   NoFragment,
                   [given |-> TRUE, ctx |-> [channel |-> "b"]]>>
  /\ sync.ret = [locale |-> "a", channel |-> "b"]

\* C21: merging is associative, merge(merge(a, b), c) = merge(a, merge(b, c))
\* = merge(a, b, c) for all fragments a, b, c, and a merge never returns a key
\* that none of its fragments has.
C21_MergeAssociative ==
  sync.op = "mergeContexts" =>
    /\ \A k \in DOMAIN sync.ret :
         \E i \in 1..Len(sync.args) :
           sync.args[i].given /\ k \in DOMAIN sync.args[i].ctx
    /\ Len(sync.args) = 3 =>
         LET a == sync.args[1]
             b == sync.args[2]
             c == sync.args[3]
         IN /\ mergeContexts(<<Given(mergeContexts(<<a, b>>)), c>>) = sync.ret
            /\ mergeContexts(<<a, Given(mergeContexts(<<b, c>>))>>) = sync.ret

\* A merge of three given fragments of which the second and the third have a
\* key of the first again, and the first has none of the other key.
C21_Witness ==
  /\ sync.op = "mergeContexts"
  /\ sync.args = <<Given([channel |-> "a"]),
                   Given([channel |-> "b", locale |-> Undefined]),
                   Given([channel |-> "a"])>>
  /\ sync.ret = [channel |-> "a", locale |-> Undefined]

-----------------------------------------------------------------------------
\* Properties of the render context and the base context

\* The render calls that this step hands to the rendering engine.
HandedToEngine ==
  {c \in 1..Len(rcalls') :
     /\ rcalls'[c].pc = "rendering"
     /\ (c > Len(rcalls) \/ rcalls[c].pc # "rendering")}

\* C22: in renderComponent and renderToString the context handed to the
\* rendering engine is merge(base context, per-call override): it has the keys
\* of both, every key of the override has the override's value, and every
\* base key the override does not have has the base's value.
C22_EngineContextIsBaseThenOverride ==
  [][\A c \in HandedToEngine :
       LET call == rcalls'[c]
           base == heap[baseContext[call.rt]]
           over == IF call.override.given THEN call.override.ctx ELSE <<>>
       IN call.op \in {"renderComponent", "renderToString"} =>
            /\ DOMAIN call.context = DOMAIN base \cup DOMAIN over
            /\ \A k \in DOMAIN over : call.context[k] = over[k]
            /\ \A k \in DOMAIN base \ DOMAIN over :
                 call.context[k] = base[k]]_vars

\* A renderToString and a renderComponent on the runtime configured with the
\* base {locale: "a", channel: "a"}, with the override {locale: "b"}: the
\* engine got the override's locale and the base's channel.
C22_Witness ==
  \E c \in 1..Len(rcalls) :
    /\ rcalls[c].pc = "rendering"
    /\ rcalls[c].rt = "rtA"
    /\ rcalls[c].op = "renderToString"
    /\ baseContext["rtA"] = "cfg"
    /\ rcalls[c].override = Given([locale |-> "b"])
    /\ rcalls[c].context = [locale |-> "b", channel |-> "a"]

\* What reading key k of context ctx gives: undefined when the key is missing.
ValueOf(ctx, k) == IF k \in DOMAIN ctx THEN ctx[k] ELSE Undefined

\* Key k has no value in context ctx: the key is missing or holds undefined.
NoValue(ctx, k) == ValueOf(ctx, k) = Undefined

\* The render calls whose context has been merged.
Merged(c) ==
  rcalls[c].pc \in {"rendering", "done"} \/ rcalls[c].err = "RenderError"

\* C23: a runtime constructed without a base context (rtB, for as long as no
\* setBaseContext replaced its base) has a base context with channel "web" and
\* no locale value; a locale of the per-call override reaches the engine, and a
\* render with no override gets channel "web" and no locale value.
C23_DefaultBaseIsWebWithoutLocale ==
  baseContext["rtB"] = "dflt" =>
    /\ ValueOf(heap["dflt"], "channel") = "web"
    /\ NoValue(heap["dflt"], "locale")
    /\ \A c \in 1..Len(rcalls) :
         (rcalls[c].rt = "rtB" /\ Merged(c)) =>
           LET call == rcalls[c]
               over == IF call.override.given THEN call.override.ctx ELSE <<>>
           IN /\ "locale" \in DOMAIN over =>
                   ValueOf(call.context, "locale") = over["locale"]
              /\ ~call.override.given =>
                   /\ ValueOf(call.context, "channel") = "web"
                   /\ NoValue(call.context, "locale")

\* A renderComponent without a per-call context on the runtime that was
\* constructed without a base context: the engine got channel "web" and an
\* undefined locale.
C23_Witness ==
  /\ baseContext["rtB"] = "dflt"
  /\ \E c \in 1..Len(rcalls) :
       /\ rcalls[c].rt = "rtB"
       /\ rcalls[c].op = "renderComponent"
       /\ rcalls[c].pc = "done"
       /\ ~rcalls[c].override.given
       /\ rcalls[c].context = [locale |-> Undefined, channel |-> "web"]

\* C24: setBaseContext(c) replaces the stored base context wholesale:
\* afterwards the base context of that runtime has exactly the keys and values
\* of c, whatever the previous base had; passed a non-object (a value that is
\* not of type object, or null) it fails with InvalidArgument and the stored
\* base context is unchanged.
C24_SetBaseContextReplaces ==
  [][(sync'.op = "setBaseContext" /\ sync' # sync) =>
       LET r == sync'.rt
           arg == sync'.arg
       IN IF arg \in {NotAnObject, Null}
            THEN /\ sync'.ret = "throw"
                 /\ thrown' = "InvalidArgument"
                 /\ baseContext' = baseContext
                 /\ heap'[baseContext'[r]] = heap[baseContext[r]]
            ELSE /\ sync'.ret = "void"
                 /\ thrown' = ""
                 /\ DOMAIN heap'[baseContext'[r]] = DOMAIN heap[arg]
                 /\ heap'[baseContext'[r]] = heap[arg]]_vars

\* The runtime configured with {locale: "a", channel: "a"} was given
\* {locale: "b"}: its base context has the locale "b" and no channel.
C24_Witness ==
  /\ sync.op = "setBaseContext"
  /\ sync.rt = "rtA"
  /\ sync.arg = "own"
  /\ sync.ret = "void"
  /\ heap["cfg"] = [locale |-> "a", channel |-> "a"]
  /\ heap[baseContext["rtA"]] = [locale |-> "b"]

\* C25: getBaseContext returns a defensive copy: a step in which the caller
\* adds, changes or removes a key of an object that getBaseContext returned
\* leaves the base context of every runtime as it was, so that later
\* getBaseContext results and the contexts of later renders are unchanged.
C25_ReturnedCopyIsDetached ==
  [][(\E ref \in CopyRefs \cap DOMAIN heap : heap'[ref] # heap[ref]) =>
       \A r \in RT : heap'[baseContext'[r]] = heap[baseContext[r]]]_vars

\* C26: rendering operations (renderComponent, renderToString,
\* renderToResponse) are read-only with respect to runtime state: every step of
\* a render, with or without a per-call override context, leaves the registry,
\* the service definitions, the memoized service instances and the base
\* context (the stored reference and what the object holds) unchanged.
C26_RendersAreReadOnly ==
  [][rcalls' # rcalls =>
       /\ registry' = registry
       /\ services' = services
       /\ serviceInstances' = serviceInstances
       /\ baseContext' = baseContext
       /\ \A r \in RT : heap'[baseContext'[r]] = heap[baseContext[r]]]_vars

\* A renderToString with a per-call context that has both keys has returned
\* on the runtime whose base context is the configured object: the object
\* still holds what it was configured with, and the registry its entry.
C26_Witness ==
  /\ \E c \in 1..Len(rcalls) :
       /\ rcalls[c].op = "renderToString"
       /\ rcalls[c].rt = "rtA"
       /\ rcalls[c].pc = "done"
       /\ rcalls[c].override = Given([channel |-> "b", locale |-> Undefined])
       /\ rcalls[c].context = [channel |-> "b", locale |-> Undefined]
  /\ baseContext["rtA"] = "cfg"
  /\ heap["cfg"] = ConfigBase
  /\ RegHas(registry["rtA"], "hero")

-----------------------------------------------------------------------------
\* Properties of failed and invalidated resolutions

\* In this step the loader of call c completes with a result that has no
\* default export.
LoadLacksHandle(c) ==
  /\ c \in 1..Len(rcalls)
  /\ rcalls[c].pc = "loading"
  /\ rcalls'[c].err = "ResolutionError"

\* Call b is the first call for the id of call a that was issued after the
\* resolve of a had completed.
FirstResolveAfter(calls, a, b) ==
  /\ a < b
  /\ calls[b].id = calls[a].id
  /\ a \in calls[b].before
  /\ \A c \in (a + 1)..(b - 1) :
       calls[c].id = calls[a].id => a \notin calls[c].before

\* C27: when a loader completes with a result that lacks a usable component
\* handle, the resolve fails with a ResolutionError, caches nothing and does
\* not reach the rendering engine, and the next resolve of that registry
\* entry invokes the loader again.
C27_NoHandleNothingCached ==
  [][/\ \A c \in 1..MaxRenders :
          LoadLacksHandle(c) => /\ rcalls'[c].pc = "failed"
                                /\ rcalls'[c].rendered = NoObject
                                /\ componentCache' = componentCache
     /\ \A a, b \in 1..Len(rcalls') :
          (/\ rcalls'[a].err = "ResolutionError"
           /\ FirstResolveAfter(rcalls', a, b)
           /\ rcalls'[b].rt = rcalls'[a].rt
           /\ rcalls'[b].loader = rcalls'[a].loader
           /\ rcalls'[b].igen = rcalls'[a].igen) =>
             rcalls'[b].inv > 0]_vars

\* The ids this step invalidates.
Invalidated == {id \in Ids : cacheGen'[id] # cacheGen[id]}

\* No resolve for id has been issued since the last invalidation of id.
NoneSinceInvalidation(id) ==
  /\ cacheGen[id] > 0
  /\ \A c \in 1..Len(rcalls) :
       rcalls[c].id = id => rcalls[c].igen < cacheGen[id]

\* C28: an invalidation evicts the cached handle of every id it names (the one
\* id of removeFromCache, every id for clearComponentCache) and leaves the
\* handles of the other ids cached, and the next resolve for an invalidated id
\* invokes the loader again.
C28_InvalidationEvicts ==
  [][/\ \A id \in Ids :
          IF id \in Invalidated
            THEN componentCache'[id] = NoObject
            ELSE Invalidated # {} => componentCache'[id] = componentCache[id]
     /\ \A r \in RT, id \in Ids :
          (/\ IssuesRender(r, id)
           /\ RegHas(registry[r], id)
           /\ NoneSinceInvalidation(id)) =>
             rcalls'[Len(rcalls')].inv > 0]_vars

-----------------------------------------------------------------------------
\* Properties of the failures of a render

\* The render calls of the two operations that have failed.
FailedRenders ==
  {c \in 1..Len(rcalls) :
     /\ rcalls[c].pc = "failed"
     /\ rcalls[c].op \in {"renderComponent", "renderToString"}}

\* C29 as stated: renderComponent and renderToString fail on well-formed input
\* only with NotFound (unknown id) or RenderError (engine failure).
C29_OnlyNotFoundOrRenderError ==
  \A c \in FailedRenders : rcalls[c].err \in {"NotFound", "RenderError"}

\* C29, amended: renderComponent fails on well-formed input only with
\* RenderError; renderToString fails only with NotFound (the id is not
\* registered, no loader ran), with the failure of the loader it invoked, with
\* ResolutionError (the loader it invoked returned no usable handle), both
\* before the engine is invoked, or with RenderError (the engine failed on the
\* handle it was given).
C29_FailuresOfARender ==
  \A c \in FailedRenders :
    LET call == rcalls[c]
    IN /\ call.op = "renderComponent" => call.err = "RenderError"
       /\ call.err \in {"NotFound", "LoaderError", "ResolutionError",
                        "RenderError"}
       /\ call.err = "NotFound" =>
            call.loader = Absent /\ call.inv = 0 /\ call.rendered = NoObject
       /\ call.err \in {"LoaderError", "ResolutionError"} =>
            call.inv > 0 /\ call.rendered = NoObject
       /\ call.err = "RenderError" => call.rendered # NoObject

\* A renderToString of a registered id failed with ResolutionError after it
\* invoked the loader, and the engine was not invoked.
C29_Witness ==
  \E c \in FailedRenders :
    /\ rcalls[c].op = "renderToString"
    /\ rcalls[c].err = "ResolutionError"
    /\ rcalls[c].inv > 0
    /\ rcalls[c].rendered = NoObject

\* C30: every route adapter answers 404 exactly when renderToString failed
\* with NotFound for an unregistered id, and answers every other failure
\* (resolution failure, loader failure, engine failure) with 500 and a body
\* that carries the message of the failure.
C30_AdaptersAnswer404OnlyForNotFound ==
  (sync.op = "routeHandler" /\ sync.status # 0) =>
    LET call == rcalls[sync.call]
    IN /\ sync.status = 404 <=> call.err = "NotFound"
       /\ call.err \in {"ResolutionError", "LoaderError", "RenderError"} =>
            /\ sync.status = 500
            /\ sync.error.isError => Includes(sync.body, sync.error.message)

-----------------------------------------------------------------------------
\* Properties of what a render returns

\* C31: renderToResponse returns a response whose body is the rendered markup,
\* whose status is the caller's status or 200 by default, whose Content-Type
\* is 'text/html; charset=utf-8' when the caller gave none (neither as a
\* header nor as contentType), and in which every header the caller supplied
\* is present with the caller's value, a content type among them included.
C31_ResponseWrapsMarkup ==
  sync.op = "renderToResponse" =>
    LET options == sync.options
        response == sync.ret
        init == IF "headers" \in DOMAIN options THEN options.headers ELSE <<>>
    IN /\ response.body = Markup(rcalls[sync.call])
       /\ response.status =
            IF "status" \in DOMAIN options THEN options.status ELSE 200
       /\ \A k \in DOMAIN init :
            /\ Lower(k) \in DOMAIN response.headers
            /\ response.headers[Lower(k)] = init[k]
       /\ "content-type" \in DOMAIN response.headers
       /\ (/\ "contentType" \notin DOMAIN options
           /\ \A k \in DOMAIN init : Lower(k) # "content-type") =>
            response.headers["content-type"] = "text/html; charset=utf-8"

\* A response for a caller that set the status, a Content-Type header and
\* another header, and a contentType as well: the header's content type is the
\* one in the response.
C31_Witness ==
  /\ sync.op = "renderToResponse"
  /\ sync.options = [status |-> 201, contentType |-> "text/xml",
                     headers |-> [x \in {"Content-Type", "X-Trace"} |->
                                    IF x = "X-Trace" THEN "1" ELSE "text/plain"]]
  /\ sync.ret.status = 201
  /\ sync.ret.headers =
       [x \in {"content-type", "x-trace"} |->
          IF x = "x-trace" THEN "1" ELSE "text/plain"]

\* The styles a registry entry carries: those of its styles property, none
\* when it has no such property or an empty one.
CarriesStyles(entry) == EntryStyles(entry) \notin {Undefined, ""}

-----------------------------------------------------------------------------
\* Properties of service registration and of builds that outlive it

\* C33: registerService fails with InvalidArgument exactly when the name is
\* empty or the factory is not callable, and such a failure leaves every
\* service definition and every memoized instance as it was.
C33_InvalidServiceRejected ==
  [][\A r \in RT, name \in Names \cup {""} :
       \A factory \in FactoriesOf(r) \cup {NotCallable} :
         RegisterService(r, name, factory) =>
           IF name = "" \/ factory = NotCallable
             THEN /\ thrown' = "InvalidArgument"
                  /\ services' = services
                  /\ serviceInstances' = serviceInstances
             ELSE /\ thrown' = ""
                  /\ services'[r][name] = factory]_vars

\* A registerService has just failed on the runtime that has a definition and
\* a memoized instance for the name: both are still there.
C33_Witness ==
  /\ thrown = "InvalidArgument"
  /\ \E n \in Names :
       /\ services["rtA"][n] # Absent
       /\ serviceInstances["rtA"][n] # NoObject

\* C34: once registerService has replaced the definition of a name, a
\* getService call for the name that starts afterwards never returns an
\* instance built by a factory other than the registered one, also when a
\* getService call was suspended inside the old factory at the moment of the
\* replacement and completes after it.
C34_NoInstanceOfReplacedFactory ==
  [][\A r \in RT, name \in Names :
       (/\ IssuesGet(r, name)
        /\ regGen[r][name] > 0
        /\ gcalls'[Len(gcalls')].result # NoObject) =>
          gcalls'[Len(gcalls')].result.by = services[r][name]]_vars

\* C35: after an invalidation of an id (removeFromCache(id) or
\* clearComponentCache()) has returned, the first resolve call for the id that
\* starts afterwards invokes the loader again, also when a resolve call for the
\* id that began before the invalidation was suspended in its loader and
\* completes after it.
C35_ResolveAfterInvalidationReloads ==
  [][\A r \in RT, id \in Ids :
       (/\ IssuesRender(r, id)
        /\ RegHas(registry[r], id)
        /\ NoneSinceInvalidation(id)) =>
          /\ rcalls'[Len(rcalls')].inv > 0
          /\ rcalls'[Len(rcalls')].pc = "loading"]_vars

-----------------------------------------------------------------------------
\* Properties of the cache under registry changes

\* The step is a registerComponent, registerComponents or unregisterComponent.
RegistryStep ==
  /\ sync'.op \in {"registerComponent", "registerComponents",
                   "unregisterComponent"}
  /\ (sync' # sync \/ registry' # registry)

\* C36: registerComponent, registerComponents and unregisterComponent never
\* modify the resolution cache, so a renderToString for a registered id whose
\* handle is cached gets the cached handle and invokes no loader, also when the
\* id has been registered with another loader, or unregistered and registered
\* again, since the handle was cached.
C36_RegistryChangesKeepCache ==
  [][/\ RegistryStep => componentCache' = componentCache
     /\ \A r \in RT, id \in Ids :
          (/\ IssuesRender(r, id)
           /\ RegHas(registry[r], id)
           /\ componentCache[id] # NoObject) =>
             /\ rcalls'[Len(rcalls')].inv = 0
             /\ rcalls'[Len(rcalls')].component = componentCache[id]
             /\ loaderCalls' = loaderCalls]_vars

\* A renderToString found the id registered with loader lA2 and handed the
\* engine the handle that loader lA1 had produced before, without invoking
\* lA2.
C36_Witness ==
  \E c \in 1..Len(rcalls) :
    /\ rcalls[c].loader = "lA2"
    /\ rcalls[c].inv = 0
    /\ rcalls[c].pc = "done"
    /\ rcalls[c].rendered.by = "lA1"
    /\ loaderCalls["lA2"] = 0

-----------------------------------------------------------------------------
\* Properties of the base context over time

\* C37: a render call uses the base context that was in effect when the call
\* was issued: the context a renderComponent or renderToString call hands to
\* the engine is the merge of the base context stored at its issue with its
\* override, whatever setBaseContext did while the call was suspended.
C37_BaseContextAtIssue ==
  [][\A c \in HandedToEngine :
       rcalls'[c].op \in {"renderComponent", "renderToString"} =>
         rcalls'[c].context =
           mergeContexts(<<Given(heap[rcalls'[c].base]),
                           rcalls'[c].override>>)]_vars

\* C38: the stored base context changes only through a setBaseContext call:
\* a step in which the caller changes an object it holds, the one it passed
\* to setBaseContext or as config.baseContext included, leaves what every
\* runtime has as its base context (and so later getBaseContext results and
\* the contexts of later renders) as it was.
C38_BaseChangesOnlyBySetter ==
  [][(\E r \in RT : heap'[baseContext'[r]] # heap[baseContext[r]]) =>
       (sync'.op = "setBaseContext" /\ sync' # sync)]_vars

-----------------------------------------------------------------------------
\* Termination

\* Render call c and getService call c have been issued and have not completed.
RenderPending(c) ==
  c \in 1..Len(rcalls) /\ rcalls[c].pc \notin {"done", "failed"}
ServicePending(c) ==
  c \in 1..Len(gcalls) /\ gcalls[c].pc \notin {"done", "failed"}

\* C39: every renderToString (with its resolve) and every getService call
\* completes, with a result or a failure, provided each loader, factory and
\* engine invocation it makes returns. A call leaves its loader or its factory
\* only when that invocation returns, a call that is not waiting for an
\* invocation can go on, and a handle or an instance gets cached only by a
\* loader or factory invocation that has returned: one that never returns
\* keeps its caller waiting and caches nothing.
C39_CallsComplete ==
  /\ \A c \in 1..MaxContextRenders :
       /\ RenderPending(c) ~> ~RenderPending(c)
       /\ ServicePending(c) ~> ~ServicePending(c)
  /\ [][/\ \A c \in 1..Len(rcalls) :
             /\ (rcalls[c].pc = "loading" /\ rcalls'[c].pc # "loading") =>
                  \E outcome \in LoaderOutcomes : LoaderReturn(c, outcome)
             /\ (rcalls[c].pc = "rendering" /\ rcalls'[c].pc # "rendering") =>
                  \E ok \in BOOLEAN : EngineReturn(c, ok)
             /\ rcalls[c].pc = "resolved" => ENABLED EngineCall(c)
        /\ \A c \in 1..Len(gcalls) :
             (gcalls[c].pc = "building" /\ gcalls'[c].pc # "building") =>
               \E ok \in BOOLEAN : FactoryReturn(c, ok)
        /\ componentCache' # componentCache =>
             \E c \in 1..Len(rcalls) :
               \E outcome \in LoaderOutcomes : LoaderReturn(c, outcome)
        /\ serviceInstances' # serviceInstances =>
             \E c \in 1..Len(gcalls) : FactoryReturn(c, TRUE)]_vars

\* A renderToString that invoked its loader and a getService that invoked its
\* factory have both completed.
C39_Witness ==
  /\ \E c \in 1..Len(rcalls) : rcalls[c].pc = "done" /\ rcalls[c].inv > 0
  /\ \E c \in 1..Len(gcalls) : gcalls[c].pc = "done" /\ gcalls[c].inv > 0

-----------------------------------------------------------------------------
\* Service definitions and memoized instances

\* C40: on every runtime each name with a memoized instance has a definition,
\* and hasService(name) follows the definitions only: once true it stays true,
\* it becomes true in no step but a registerService of that name, and no
\* getService step, whether it returns the memo, starts a build, or ends a
\* build with an instance or a failure, changes it.
C40_InstancesHaveDefinitions ==
  /\ [](\A r \in RT, n \in Names :
          serviceInstances[r][n] # NoObject => HasService(r, n))
  /\ [][\A r \in RT, n \in Names :
          /\ HasService(r, n) => HasService(r, n)'
          /\ (~HasService(r, n) /\ HasService(r, n)') =>
               (regGen'[r][n] = regGen[r][n] + 1 /\ gcalls' = gcalls)
          /\ gcalls' # gcalls => (HasService(r, n)' <=> HasService(r, n))]_vars

\* A name registered after construction has a memoized instance, and a build
\* has failed, on a runtime that still reports the name as registered.
C40_Witness ==
  /\ \E r \in RT, n \in Names :
       regGen[r][n] > 0 /\ serviceInstances[r][n] # NoObject
  /\ \E c \in 1..Len(gcalls) :
       /\ gcalls[c].pc = "failed" /\ gcalls[c].err = "ServiceBuildError"
       /\ HasService(gcalls[c].rt, gcalls[c].name)

====
